---------------------------- MODULE Spec2Model ----------------------------
(***************************************************************************)
(* Model of src/beyondtrust_client.py: the BeyondTrustClient singleton,    *)
(* its OAuth token cache with retry/backoff (_refresh_token,               *)
(* get_valid_token), the session sign-in (_get_auth_headers) and the       *)
(* folder / secret lookup (get_secrets).                                   *)
(*                                                                         *)
(* Python values: None is the empty tuple, any other value v is <<v>>.     *)
(* A JSON object is a function whose DOMAIN is the set of keys it carries. *)
(* Time is in seconds.                                                     *)
(***************************************************************************)
EXTENDS Integers, Sequences, FiniteSets, TLC

\* ------------------------------------------------------------- bounds
NumThreads == 2
MaxTicks == 1
NumSecretCallers == 1

Threads == 1..NumThreads

\* ------------------------------------------------- program constants
Retries == 3
Backoff == 2
DefaultExpiresIn == 3600
ExpiryBuffer == 30

\* ------------------------------------------------------ Python values
None == << >>
Some(v) == << v >>

\* dict.get(key): the value, or None when the key is missing
Get(d, key) == IF key \in DOMAIN d THEN d[key] ELSE None

\* dict.get(key, default): the default only when the key is missing
GetDefault(d, key, default) == IF key \in DOMAIN d THEN d[key] ELSE default

\* ----------------------------------------------- environment: the vault
\* lifetimes (expires_in) the token endpoint may report
ExpiresInValues == {30, 3600}

\* seconds the clock may advance between two steps of the program
TickSteps == {3570}

\* A token response.  ok: the POST returned and raise_for_status() and
\* json() passed.  has_token: the body carries "access_token".
\* exp: "absent" (no "expires_in"), "number", or "bad" (a value that
\* cannot take part in expires_in - 30, e.g. null or a string).
TokenResponses ==
    { [ok |-> FALSE, has_token |-> FALSE, exp |-> "absent", val |-> 0],
      [ok |-> TRUE,  has_token |-> FALSE, exp |-> "absent", val |-> 0],
      [ok |-> TRUE,  has_token |-> TRUE,  exp |-> "bad",    val |-> 0],
      [ok |-> TRUE,  has_token |-> TRUE,  exp |-> "absent", val |-> 0] }
    \cup { [ok |-> TRUE, has_token |-> TRUE, exp |-> "number", val |-> e] :
             e \in ExpiresInValues }

\* The sign-in response: a transport failure or non-2xx status (both are
\* requests.RequestException), or a 2xx response whose cookie jar has a
\* session id, an empty one, or none.
SignInResponses == {"http_error", "connection_error", "cookie", "empty_cookie", "no_cookie"}

FolderNames == {"Finance", "Missing"}

\* Folder lists the vault may return from GET /Folders
FolderLists ==
    { << >>,
      << [Name |-> Some("Finance"), Id |-> Some(42)] >>,
      << [Name |-> Some("Ops"), Id |-> Some(7)],
         [Name |-> Some("Finance"), ID |-> Some(42)] >>,
      << [Name |-> Some("Finance"), Id |-> Some(0), ID |-> Some(5)],
         [Name |-> Some("Finance"), Id |-> Some(42)] >>,
      << [Name |-> Some("finance"), Id |-> Some(9)],
         [Name |-> Some("Finance"), Id |-> Some(0)] >>,
      << [Name |-> Some("Ops"), Id |-> Some(7)], [Id |-> Some(3)] >> }

\* Secret lists the vault may return from GET /Folders/{id}/secrets
SecretLists ==
    { << >>,
      << [Title |-> "db", Password |-> Some("p1")],
         [Title |-> "api", Password |-> Some("")] >>,
      << [Title |-> "db", Password |-> Some("p1")],
         [Title |-> "api"] >>,
      << [Title |-> "db", Password |-> Some("p1")],
         [Title |-> "api", Password |-> Some("k")],
         [Title |-> "db", Password |-> Some("p2")] >>,
      << [Title |-> "db", Password |-> None] >>,
      << [Title |-> "db", Password |-> Some("p1")], [Password |-> Some("x")] >> }


\* ---------------------------------------------------------------- state
VARIABLES
    now,            \* datetime.now(timezone.utc), in seconds
    ticks,          \* clock advances taken so far (bounded by MaxTicks)
    issued,         \* tokens the vault has issued; the next token is issued + 1
    cls_instance,   \* BeyondTrustClient._instance: None or the instance
    cls_lock,       \* BeyondTrustClient._lock: 0 when free, else the holder
    created,        \* instances created by super().__new__
    initialized,    \* hasattr(self, "_initialized")
    init_entered,   \* how many times __init__ went past its hasattr check
    config,         \* self.config: None or the k-th loaded ClientConfig
    access_token,   \* self._access_token
    token_expiry,   \* self._token_expiry
    expiry_token,   \* history: the access_token of the response _token_expiry came from
    token_lock,     \* self._token_lock: 0 before __init__, else a Lock object
    held,           \* per thread: the token Lock object it holds, 0 for none
    pc,             \* per thread: the statement it is at
    op,             \* per thread: the top-level call it is in
    folder_name,    \* per thread: get_secrets' argument
    attempt,        \* per thread: _refresh_token's loop variable
    data,           \* per thread: _refresh_token's resp.json()
    token,          \* per thread: _get_auth_headers' token
    sign_in_resp,   \* per thread: what the sign-in POST of the call met, "" before it
    folder_resp,    \* per thread: get_secrets' folder_resp.json(), None before it
    secrets_resp,   \* per thread: get_secrets' secrets_resp.json(), None before it
    f_id,           \* per thread: get_secrets' f_id
    result,         \* per thread: what the top-level call returned or raised
    log,            \* per thread: the requests, sleeps and cache writes of the call
    entry_empty,    \* per thread: the cache was empty when the call started
    client          \* per thread: the BeyondTrustClient reference it holds, or None

clock == << now, ticks >>
singleton == << cls_instance, cls_lock, created, initialized, init_entered, config >>
cache == << access_token, token_expiry, expiry_token >>
locals == << folder_name, attempt, data, token, sign_in_resp, folder_resp, secrets_resp, f_id >>
vars == << now, ticks, issued, cls_instance, cls_lock, created, initialized,
           init_entered, config, access_token, token_expiry, expiry_token, token_lock, held,
           pc, op,
           folder_name, attempt, data, token, sign_in_resp, folder_resp, secrets_resp, f_id,
           result, log, entry_empty, client >>

\* --------------------------------------------------------------- values
NoData == [ok |-> FALSE, has_token |-> FALSE, exp |-> "absent", val |-> 0, access_token |-> 0]

EmptyMap == [x \in {} |-> None]

NoResult == [kind |-> "none", err |-> "", token |-> None, secrets |-> EmptyMap]

TokenResult(v) == [kind |-> "token", err |-> "", token |-> v, secrets |-> EmptyMap]

SecretsResult(m) == [kind |-> "secrets", err |-> "", token |-> None, secrets |-> m]

ErrorResult(e) == [kind |-> "error", err |-> e, token |-> None, secrets |-> EmptyMap]

Event(name, n) == [ev |-> name, n |-> n, id |-> None]

Logged(t, e) == [log EXCEPT ![t] = Append(@, e)]

\* ------------------------------------------------- exception hierarchy
\* mutant of IsRequestException: no exception counts as a RequestException
IsRequestExceptionNever(exc) == FALSE

\* requests.HTTPError and requests.ConnectionError derive from
\* requests.RequestException; the client's own exceptions do not.
IsRequestException(exc) == exc \in {"HTTPError", "ConnectionError"}

\* mutant of Surfaced: get_secrets wraps every exception
SurfacedWrapAll(call, exc) == IF call = "get_secrets" THEN "BeyondTrustError" ELSE exc

\* What the caller of the top-level call sees when exc leaves its body:
\* get_secrets turns a RequestException into a plain BeyondTrustError.
Surfaced(call, exc) ==
    IF call = "get_secrets" /\ IsRequestException(exc) THEN "BeyondTrustError" ELSE exc

\* ------------------------------------------------------- token cache
\* mutant of IsExpired: a token is still served at the instant it expires
IsExpiredStrictlyAfter(expiry, t) == expiry = None \/ t > expiry[1]

\* is_expired of get_valid_token
IsExpired(expiry, t) == expiry = None \/ t >= expiry[1]

\* "not self._access_token or is_expired"
NeedsRefresh(tok, expiry, t) == tok = None \/ IsExpired(expiry, t)

\* data.get("expires_in", 3600)
ExpiresIn(d) == IF d.exp = "absent" THEN DefaultExpiresIn ELSE d.val

\* mutant of ComputeExpiry: the safety buffer is left out
ComputeExpiryNoBuffer(t, expires_in) == t + expires_in

\* datetime.now(timezone.utc) + timedelta(seconds=expires_in - 30)
ComputeExpiry(t, expires_in) == t + (expires_in - ExpiryBuffer)

\* mutant of IsLastAttempt: gives up one attempt early
IsLastAttemptEarly(a) == a = Retries - 2

\* "attempt == self.retries - 1"
IsLastAttempt(a) == a = Retries - 1

\* mutant of BackoffDelay: the same delay after every attempt
BackoffDelayConstant(a) == Backoff

\* mutant of BackoffDelay: the delay counts attempts from zero
BackoffDelayFromZero(a) == Backoff * a

\* self.backoff * (attempt + 1)
BackoffDelay(a) == Backoff * (a + 1)

\* Whether _refresh_token can use the response r of a token POST: the
\* request succeeded, the body has "access_token" and a usable "expires_in"
Usable(r) == r.ok /\ r.has_token /\ r.exp # "bad"

\* How the history records a token POST: 1 a usable response, 0 a failed attempt
PostClass(r) == IF Usable(r) THEN 1 ELSE 0

\* mutant of LockFree: the lock excludes nobody
LockFreeAlways(l, holders) == TRUE

\* Lock.acquire() goes through when no thread holds the Lock object l
LockFree(l, holders) == \A u \in Threads : holders[u] # l

\* ------------------------------------------------ leaving a function
\* get_valid_token returns v: the with block releases the lock the thread
\* took, and the value goes to _get_auth_headers or to the caller.
Returned(t, v) ==
    /\ held' = [held EXCEPT ![t] = 0]
    /\ attempt' = [attempt EXCEPT ![t] = 0]
    /\ data' = [data EXCEPT ![t] = NoData]
    /\ IF op[t] = "get_secrets"
         THEN /\ pc' = [pc EXCEPT ![t] = "sign_in"]
              /\ token' = [token EXCEPT ![t] = v]
              /\ result' = result
         ELSE /\ pc' = [pc EXCEPT ![t] = "done"]
              /\ token' = token
              /\ result' = [result EXCEPT ![t] = TokenResult(v)]

\* mutant of Raised: the exception leaves the with block without
\* releasing the lock
RaisedHolding(t, exc) ==
    /\ held' = held
    /\ attempt' = [attempt EXCEPT ![t] = 0]
    /\ data' = [data EXCEPT ![t] = NoData]
    /\ pc' = [pc EXCEPT ![t] = "done"]
    /\ token' = token
    /\ result' = [result EXCEPT ![t] = ErrorResult(Surfaced(op[t], exc))]

\* exc leaves the top-level call (through the with block, if it is open)
Raised(t, exc) ==
    /\ held' = [held EXCEPT ![t] = 0]
    /\ attempt' = [attempt EXCEPT ![t] = 0]
    /\ data' = [data EXCEPT ![t] = NoData]
    /\ pc' = [pc EXCEPT ![t] = "done"]
    /\ token' = token
    /\ result' = [result EXCEPT ![t] = ErrorResult(Surfaced(op[t], exc))]

\* "except Exception" of _refresh_token: AuthError on the last attempt,
\* otherwise on to time.sleep
AttemptFailed(t) ==
    IF IsLastAttempt(attempt[t])
      THEN Raised(t, "AuthError")
      ELSE /\ pc' = [pc EXCEPT ![t] = "rt_sleep"]
           /\ UNCHANGED << held, attempt, data, token, result >>

\* ------------------------------------------------------------ actions
\* A caller holding the client calls get_valid_token()
CallGetValidToken(t) ==
    /\ pc[t] = "idle"
    /\ client[t] # None
    /\ pc' = [pc EXCEPT ![t] = "gvt_lock"]
    /\ op' = [op EXCEPT ![t] = "get_valid_token"]
    /\ entry_empty' = [entry_empty EXCEPT ![t] = (access_token = None)]
    /\ UNCHANGED << clock, issued, singleton, cache, token_lock, held, locals, result,
                    log, client >>

\* "with self._token_lock:" the attribute is read once, the Lock it names
\* is taken when no thread holds it
AcquireTokenLock(t) ==
    /\ pc[t] = "gvt_lock"
    /\ LockFree(token_lock, held)
    /\ held' = [held EXCEPT ![t] = token_lock]
    /\ pc' = [pc EXCEPT ![t] = "gvt_check"]
    /\ UNCHANGED << clock, issued, singleton, cache, token_lock, op, locals,
                    result, log, entry_empty, client >>

\* get_valid_token's check: refresh, or return the cached token
CheckToken(t) ==
    /\ pc[t] = "gvt_check"
    /\ IF NeedsRefresh(access_token, token_expiry, now)
         THEN /\ pc' = [pc EXCEPT ![t] = "rt_post"]
              /\ attempt' = [attempt EXCEPT ![t] = 0]
              /\ UNCHANGED << held, data, token, result >>
         ELSE Returned(t, access_token)
    /\ UNCHANGED << clock, issued, singleton, cache, token_lock, op, folder_name,
                    sign_in_resp, folder_resp, secrets_resp, f_id, log, entry_empty, client >>

\* _refresh_token: session.post, raise_for_status and resp.json(), the
\* vault answering with one of the responses in R
TokenPostFrom(t, R) ==
    /\ pc[t] = "rt_post"
    /\ \E r \in R :
         /\ log' = Logged(t, Event("token_post", PostClass(r)))
         /\ IF r.ok
              THEN /\ data' = [data EXCEPT ![t] =
                                 [ok |-> TRUE, has_token |-> r.has_token, exp |-> r.exp,
                                  val |-> r.val,
                                  access_token |-> IF r.has_token THEN issued + 1 ELSE 0]]
                   /\ issued' = IF r.has_token THEN issued + 1 ELSE issued
                   /\ pc' = [pc EXCEPT ![t] = "rt_store_token"]
                   /\ UNCHANGED << held, attempt, token, result >>
              ELSE /\ AttemptFailed(t)
                   /\ issued' = issued
    /\ UNCHANGED << clock, singleton, cache, token_lock, op, folder_name, sign_in_resp,
                    folder_resp, secrets_resp, f_id, entry_empty, client >>

TokenPost(t) == TokenPostFrom(t, TokenResponses)

\* self._access_token = data["access_token"]  (KeyError when it is missing)
StoreToken(t) ==
    /\ pc[t] = "rt_store_token"
    /\ IF data[t].has_token
         THEN /\ access_token' = Some(data[t].access_token)
              /\ log' = log
              /\ pc' = [pc EXCEPT ![t] = "rt_store_expiry"]
              /\ UNCHANGED << held, attempt, data, token, result >>
         ELSE /\ AttemptFailed(t)
              /\ UNCHANGED << access_token, log >>
    /\ UNCHANGED << clock, issued, singleton, token_expiry, expiry_token, token_lock, op,
                    folder_name, sign_in_resp, folder_resp, secrets_resp, f_id, entry_empty, client >>

\* expires_in = data.get("expires_in", 3600); self._token_expiry = now +
\* timedelta(seconds=expires_in - 30) (TypeError when expires_in is no
\* number); return self._access_token
StoreExpiry(t) ==
    /\ pc[t] = "rt_store_expiry"
    /\ IF data[t].exp # "bad"
         THEN /\ token_expiry' = Some(ComputeExpiry(now, ExpiresIn(data[t])))
              /\ expiry_token' = Some(data[t].access_token)
              /\ log' = Logged(t, Event("store_expiry", ComputeExpiry(now, ExpiresIn(data[t]))))
              /\ Returned(t, access_token)
         ELSE /\ AttemptFailed(t)
              /\ UNCHANGED << token_expiry, expiry_token, log >>
    /\ UNCHANGED << clock, issued, singleton, access_token, token_lock, op,
                    folder_name, sign_in_resp, folder_resp, secrets_resp, f_id, entry_empty, client >>

\* time.sleep(self.backoff * (attempt + 1)), then the next iteration of
\* "for attempt in range(self.retries)"; the function returns None when
\* the range is used up
BackoffSleep(t) ==
    /\ pc[t] = "rt_sleep"
    /\ now' = now + BackoffDelay(attempt[t])
    /\ log' = Logged(t, Event("sleep", BackoffDelay(attempt[t])))
    /\ IF attempt[t] + 1 < Retries
         THEN /\ pc' = [pc EXCEPT ![t] = "rt_post"]
              /\ attempt' = [attempt EXCEPT ![t] = @ + 1]
              /\ UNCHANGED << held, data, token, result >>
         ELSE Returned(t, None)
    /\ UNCHANGED << ticks, issued, singleton, cache, token_lock, op, folder_name,
                    sign_in_resp, folder_resp, secrets_resp, f_id, entry_empty, client >>

\* ------------------------------------------------- _get_auth_headers
\* resp.cookies.get("ASP.NET_SessionId") of a 2xx sign-in response
SessionId(r) ==
    IF r = "cookie" THEN Some("sid") ELSE IF r = "empty_cookie" THEN Some("") ELSE None

\* mutant of NoSession: only a missing cookie counts, an empty one passes
NoSessionNoneOnly(sid) == sid = None

\* "not session_id"
NoSession(sid) == sid = None \/ sid = Some("")

\* The exception the sign-in leaves _get_auth_headers with, "" for none:
\* session.post / raise_for_status raise a RequestException, a missing
\* session id raises AuthError
SignInError(r) ==
    IF r = "http_error" THEN "HTTPError"
    ELSE IF r = "connection_error" THEN "ConnectionError"
    ELSE IF NoSession(SessionId(r)) THEN "AuthError"
    ELSE ""

\* A caller holding the client calls get_secrets(name)
CallGetSecrets(t) ==
    /\ pc[t] = "idle"
    /\ client[t] # None
    /\ \E name \in FolderNames : folder_name' = [folder_name EXCEPT ![t] = name]
    /\ pc' = [pc EXCEPT ![t] = "gvt_lock"]
    /\ op' = [op EXCEPT ![t] = "get_secrets"]
    /\ entry_empty' = [entry_empty EXCEPT ![t] = (access_token = None)]
    /\ UNCHANGED << clock, issued, singleton, cache, token_lock, held, attempt, data,
                    token, sign_in_resp, folder_resp, secrets_resp, f_id, result, log, client >>

\* _get_auth_headers after get_valid_token: the sign-in POST, the cookie
SignIn(t) ==
    /\ pc[t] = "sign_in"
    /\ log' = Logged(t, Event("sign_in_post", 0))
    /\ \E r \in SignInResponses :
         /\ sign_in_resp' = [sign_in_resp EXCEPT ![t] = r]
         /\ IF SignInError(r) # ""
              THEN Raised(t, SignInError(r))
              ELSE /\ pc' = [pc EXCEPT ![t] = "folders"]
                   /\ UNCHANGED << held, attempt, data, token, result >>
    /\ UNCHANGED << clock, issued, singleton, cache, token_lock, op, folder_name,
                    folder_resp, secrets_resp, f_id, entry_empty, client >>

\* -------------------------------------------------------- get_secrets
\* f.get("Name") == folder_name
NameMatches(f, name) == Get(f, "Name") = Some(name)

\* next((f for f in folders if f.get("Name") == folder_name), None): the
\* index of the folder chosen, 0 for None
FirstMatch(folders, name) ==
    IF \E i \in DOMAIN folders : NameMatches(folders[i], name)
      THEN CHOOSE i \in DOMAIN folders :
             /\ NameMatches(folders[i], name)
             /\ \A j \in DOMAIN folders : NameMatches(folders[j], name) => i <= j
      ELSE 0

\* truth value of an identifier: None and 0 are false
TruthyId(v) == v # None /\ v # Some(0)

\* folder.get("Id") or folder.get("ID")
FolderId(f) == IF TruthyId(Get(f, "Id")) THEN Get(f, "Id") ELSE Get(f, "ID")

\* {item["Title"]: item.get("Password", "") for item in items}, built in
\* list order: the first n items
RECURSIVE SecretMapUpTo(_, _)
SecretMapUpTo(items, n) ==
    IF n = 0 THEN EmptyMap
    ELSE LET prev == SecretMapUpTo(items, n - 1)
             item == items[n]
         IN  [k \in DOMAIN prev \cup {item.Title} |->
                IF k = item.Title THEN GetDefault(item, "Password", Some("")) ELSE prev[k]]

BuildSecretMap(items) == SecretMapUpTo(items, Len(items))

\* item["Title"] raises KeyError for an item without a Title
HasTitles(items) == \A i \in DOMAIN items : "Title" \in DOMAIN items[i]

\* GET {base_url}/Folders, raise_for_status, the scan for folder_name
GetFolders(t) ==
    /\ pc[t] = "folders"
    /\ log' = Logged(t, Event("folders_get", 0))
    /\ \E ok \in BOOLEAN : \E folders \in FolderLists :
         IF ~ok
           THEN /\ Raised(t, "HTTPError")
                /\ UNCHANGED << folder_resp, f_id >>
           ELSE /\ folder_resp' = [folder_resp EXCEPT ![t] = Some(folders)]
                /\ IF FirstMatch(folders, folder_name[t]) = 0
                     THEN /\ Raised(t, "ResourceNotFoundError")
                          /\ f_id' = f_id
                     ELSE /\ f_id' = [f_id EXCEPT ![t] =
                                        FolderId(folders[FirstMatch(folders, folder_name[t])])]
                          /\ pc' = [pc EXCEPT ![t] = "secrets"]
                          /\ UNCHANGED << held, attempt, data, token, result >>
    /\ UNCHANGED << clock, issued, singleton, cache, token_lock, op, folder_name,
                    sign_in_resp, secrets_resp, entry_empty, client >>

\* GET {base_url}/Folders/{f_id}/secrets, raise_for_status, the mapping
GetSecretsList(t) ==
    /\ pc[t] = "secrets"
    /\ log' = Logged(t, [ev |-> "secrets_get", n |-> 0, id |-> f_id[t]])
    /\ \E ok \in BOOLEAN : \E items \in SecretLists :
         IF ~ok
           THEN /\ Raised(t, "HTTPError")
                /\ UNCHANGED secrets_resp
           ELSE /\ secrets_resp' = [secrets_resp EXCEPT ![t] = Some(items)]
                /\ IF HasTitles(items)
                     THEN /\ pc' = [pc EXCEPT ![t] = "done"]
                          /\ result' = [result EXCEPT ![t] =
                                          SecretsResult(BuildSecretMap(items))]
                          /\ UNCHANGED << held, attempt, data, token >>
                     ELSE Raised(t, "KeyError")
    /\ UNCHANGED << clock, issued, singleton, cache, token_lock, op, folder_name,
                    sign_in_resp, folder_resp, f_id, entry_empty, client >>

\* ------------------------------------------------ __new__ and __init__
\* A thread evaluates BeyondTrustClient()
CallConstruct(t) ==
    /\ pc[t] = "idle"
    /\ pc' = [pc EXCEPT ![t] = "new_lock"]
    /\ op' = [op EXCEPT ![t] = "construct"]
    /\ UNCHANGED << clock, issued, singleton, cache, token_lock, held, locals, result,
                    log, entry_empty, client >>

\* __new__: "with cls._lock:"
NewAcquire(t) ==
    /\ pc[t] = "new_lock"
    /\ cls_lock = 0
    /\ cls_lock' = t
    /\ pc' = [pc EXCEPT ![t] = "new_check"]
    /\ UNCHANGED << clock, issued, cls_instance, created, initialized, init_entered,
                    config, cache, token_lock, held, op, locals, result, log,
                    entry_empty, client >>

\* __new__: create the instance if there is none, return cls._instance
\* and leave the with block; __init__ then runs on the object returned
NewInstance(t) ==
    /\ pc[t] = "new_check"
    /\ IF cls_instance = None
         THEN /\ cls_instance' = Some(created + 1)
              /\ created' = created + 1
         ELSE UNCHANGED << cls_instance, created >>
    /\ client' = [client EXCEPT ![t] = cls_instance']
    /\ cls_lock' = 0
    /\ pc' = [pc EXCEPT ![t] = "init_check"]
    /\ UNCHANGED << clock, issued, initialized, init_entered, config, cache, token_lock,
                    held, op, locals, result, log, entry_empty >>

\* mutant of InitCheck: __init__ runs its body on every construction
InitCheckAlways(t) ==
    /\ pc[t] = "init_check"
    /\ pc' = [pc EXCEPT ![t] = "init_config"]
    /\ init_entered' = init_entered + 1
    /\ UNCHANGED << clock, issued, cls_instance, cls_lock, created, initialized, config,
                    cache, token_lock, held, op, locals, result, log, entry_empty, client >>

\* __init__: "if hasattr(self, '_initialized'): return"
InitCheck(t) ==
    /\ pc[t] = "init_check"
    /\ IF initialized
         THEN /\ pc' = [pc EXCEPT ![t] = "idle"]
              /\ init_entered' = init_entered
         ELSE /\ pc' = [pc EXCEPT ![t] = "init_config"]
              /\ init_entered' = init_entered + 1
    /\ UNCHANGED << clock, issued, cls_instance, cls_lock, created, initialized, config,
                    cache, token_lock, held, op, locals, result, log, entry_empty, client >>

\* __init__: load_dotenv(), self.config = self._load_config(), self.session
InitConfig(t) ==
    /\ pc[t] = "init_config"
    /\ config' = Some(t)
    /\ pc' = [pc EXCEPT ![t] = "init_cache"]
    /\ UNCHANGED << clock, issued, cls_instance, cls_lock, created, initialized,
                    init_entered, cache, token_lock, held, op, locals, result, log,
                    entry_empty, client >>

\* __init__: self._access_token = None; self._token_expiry = None
InitCache(t) ==
    /\ pc[t] = "init_cache"
    /\ access_token' = None
    /\ token_expiry' = None
    /\ expiry_token' = None
    /\ pc' = [pc EXCEPT ![t] = "init_token_lock"]
    /\ UNCHANGED << clock, issued, singleton, token_lock, held, op, locals, result, log,
                    entry_empty, client >>

\* __init__: self._token_lock = Lock(), a new Lock object (named by the
\* thread that created it)
InitTokenLock(t) ==
    /\ pc[t] = "init_token_lock"
    /\ token_lock' = t
    /\ pc' = [pc EXCEPT ![t] = "init_flag"]
    /\ UNCHANGED << clock, issued, singleton, cache, held, op, locals, result, log,
                    entry_empty, client >>

\* __init__: self.retries, self.backoff, self._initialized = True
InitFlag(t) ==
    /\ pc[t] = "init_flag"
    /\ initialized' = TRUE
    /\ pc' = [pc EXCEPT ![t] = "idle"]
    /\ UNCHANGED << clock, issued, cls_instance, cls_lock, created, init_entered, config,
                    cache, token_lock, held, op, locals, result, log, entry_empty, client >>

\* Time passes between two steps of the program
Tick ==
    /\ ticks < MaxTicks
    /\ ticks' = ticks + 1
    /\ \E d \in TickSteps : now' = now + d
    /\ UNCHANGED << issued, singleton, cache, token_lock, held, pc, op, locals,
                    result, log, entry_empty, client >>

\* ------------------------------------------------------ specification
\* The state after the client has been constructed once: the singleton
\* exists, __init__ has run, the token cache is empty, every thread holds
\* the instance.
Init ==
    /\ now = 0
    /\ ticks = 0
    /\ issued = 0
    /\ cls_instance = Some(1)
    /\ cls_lock = 0
    /\ created = 1
    /\ initialized = TRUE
    /\ init_entered = 1
    /\ config = Some(1)
    /\ access_token = None
    /\ token_expiry = None
    /\ expiry_token = None
    /\ token_lock = 1
    /\ held = [t \in Threads |-> 0]
    /\ pc = [t \in Threads |-> "idle"]
    /\ op = [t \in Threads |-> "none"]
    /\ folder_name = [t \in Threads |-> ""]
    /\ attempt = [t \in Threads |-> 0]
    /\ data = [t \in Threads |-> NoData]
    /\ token = [t \in Threads |-> None]
    /\ sign_in_resp = [t \in Threads |-> ""]
    /\ folder_resp = [t \in Threads |-> None]
    /\ secrets_resp = [t \in Threads |-> None]
    /\ f_id = [t \in Threads |-> None]
    /\ result = [t \in Threads |-> NoResult]
    /\ log = [t \in Threads |-> << >>]
    /\ entry_empty = [t \in Threads |-> FALSE]
    /\ client = [t \in Threads |-> Some(1)]

Next ==
    \/ \E t \in Threads : CallGetValidToken(t)
    \/ \E t \in Threads : AcquireTokenLock(t)
    \/ \E t \in Threads : CheckToken(t)
    \/ \E t \in Threads : TokenPost(t)
    \/ \E t \in Threads : StoreToken(t)
    \/ \E t \in Threads : StoreExpiry(t)
    \/ \E t \in Threads : BackoffSleep(t)
    \/ Tick

Spec == Init /\ [][Next]_vars

\* The vault of the progress scenario: the token POST fails, answers with
\* an unusable expires_in, or answers with a token that lives 3600 seconds
FairResponses ==
    { r \in TokenResponses :
        ~r.ok \/ r.exp = "bad" \/ (r.exp = "number" /\ r.val = DefaultExpiresIn) }

\* A step of thread t inside get_valid_token
Proceed(t) ==
    \/ AcquireTokenLock(t)
    \/ CheckToken(t)
    \/ TokenPostFrom(t, FairResponses)
    \/ StoreToken(t)
    \/ StoreExpiry(t)
    \/ BackoffSleep(t)

NextFair ==
    \/ \E t \in Threads : CallGetValidToken(t)
    \/ \E t \in Threads : AcquireTokenLock(t)
    \/ \E t \in Threads : CheckToken(t)
    \/ \E t \in Threads : TokenPostFrom(t, FairResponses)
    \/ \E t \in Threads : StoreToken(t)
    \/ \E t \in Threads : StoreExpiry(t)
    \/ \E t \in Threads : BackoffSleep(t)

\* The constructed client with threads that keep running: every request
\* and every sleep returns, and a thread waiting for a Lock that stays
\* free gets it
SpecFair == Init /\ [][NextFair]_vars /\ \A t \in Threads : WF_vars(Proceed(t))

\* The whole client: callers 1..NumSecretCallers call get_secrets or
\* get_valid_token on the constructed client
SecretCallers == 1..NumSecretCallers

NextSecrets ==
    \/ \E t \in SecretCallers : CallGetSecrets(t)
    \/ \E t \in SecretCallers : CallGetValidToken(t)
    \/ \E t \in Threads : AcquireTokenLock(t)
    \/ \E t \in Threads : CheckToken(t)
    \/ \E t \in Threads : TokenPost(t)
    \/ \E t \in Threads : StoreToken(t)
    \/ \E t \in Threads : StoreExpiry(t)
    \/ \E t \in Threads : BackoffSleep(t)
    \/ \E t \in Threads : SignIn(t)
    \/ \E t \in Threads : GetFolders(t)
    \/ \E t \in Threads : GetSecretsList(t)

SpecSecrets == Init /\ [][NextSecrets]_vars


\* The vault of the construction scenario: the token POST fails, or
\* answers with a token that lives 3600 seconds
ConstructResponses ==
    { r \in TokenResponses : ~r.ok \/ (r.exp = "number" /\ r.val = DefaultExpiresIn) }

\* The process before the first BeyondTrustClient(): no instance yet.
\* Threads construct the client and call get_valid_token on it.
InitConstruct ==
    /\ now = 0
    /\ ticks = 0
    /\ issued = 0
    /\ cls_instance = None
    /\ cls_lock = 0
    /\ created = 0
    /\ initialized = FALSE
    /\ init_entered = 0
    /\ config = None
    /\ access_token = None
    /\ token_expiry = None
    /\ expiry_token = None
    /\ token_lock = 0
    /\ held = [t \in Threads |-> 0]
    /\ pc = [t \in Threads |-> "idle"]
    /\ op = [t \in Threads |-> "none"]
    /\ folder_name = [t \in Threads |-> ""]
    /\ attempt = [t \in Threads |-> 0]
    /\ data = [t \in Threads |-> NoData]
    /\ token = [t \in Threads |-> None]
    /\ sign_in_resp = [t \in Threads |-> ""]
    /\ folder_resp = [t \in Threads |-> None]
    /\ secrets_resp = [t \in Threads |-> None]
    /\ f_id = [t \in Threads |-> None]
    /\ result = [t \in Threads |-> NoResult]
    /\ log = [t \in Threads |-> << >>]
    /\ entry_empty = [t \in Threads |-> FALSE]
    /\ client = [t \in Threads |-> None]

NextConstruct ==
    \/ \E t \in Threads : CallConstruct(t)
    \/ \E t \in Threads : NewAcquire(t)
    \/ \E t \in Threads : NewInstance(t)
    \/ \E t \in Threads : InitCheck(t)
    \/ \E t \in Threads : InitConfig(t)
    \/ \E t \in Threads : InitCache(t)
    \/ \E t \in Threads : InitTokenLock(t)
    \/ \E t \in Threads : InitFlag(t)
    \/ \E t \in Threads : CallGetValidToken(t)
    \/ \E t \in Threads : AcquireTokenLock(t)
    \/ \E t \in Threads : CheckToken(t)
    \/ \E t \in Threads : TokenPostFrom(t, ConstructResponses)
    \/ \E t \in Threads : StoreToken(t)
    \/ \E t \in Threads : StoreExpiry(t)
    \/ \E t \in Threads : BackoffSleep(t)

SpecConstruct == InitConstruct /\ [][NextConstruct]_vars


\* ------------------------------------------------------------- claims
\* The token POSTs of a call, in order, and their outcomes (1 usable, 0 failed)
TokenPosts(l) == SelectSeq(l, LAMBDA e : e.ev = "token_post")

Outcomes(l) == [i \in 1..Len(TokenPosts(l)) |-> TokenPosts(l)[i].n]

\* How many events named name the call has logged
Count(l, name) == Len(SelectSeq(l, LAMBDA e : e.ev = name))

\* Thread t leaves get_valid_token with a token in this step
ReturnsToken(t) ==
    /\ pc[t] \in {"gvt_check", "rt_store_expiry"}
    /\ pc'[t] = "done"
    /\ result'[t].kind = "token"

\* C1: a token returned by get_valid_token never has a stored buffered
\* expiry at or before the current time at the moment of return, on the
\* cached path and on the refresh path alike.
C1_NeverServesExpired ==
    [][\A t \in Threads :
         ReturnsToken(t) => (token_expiry' # None /\ now' < token_expiry'[1])]_vars

\* Every caller has called get_valid_token while the cache was empty, and
\* every one of them has returned
AllCalledOnEmptyCache ==
    \A t \in Threads : pc[t] = "done" /\ op[t] = "get_valid_token" /\ entry_empty[t]

\* The successful token POSTs of all callers together
SuccessfulPosts ==
    UNION { { << t, i >> : i \in { j \in DOMAIN log[t] :
                                     log[t][j].ev = "token_post" /\ log[t][j].n = 1 } } :
            t \in Threads }

AllReturnSameToken ==
    \E k \in 1..issued : \A t \in Threads : result[t] = TokenResult(Some(k))

NoFailureNoExpiry ==
    \A t \in Threads : \A i \in DOMAIN log[t] :
        /\ log[t][i].ev = "token_post" => log[t][i].n = 1
        /\ log[t][i].ev = "store_expiry" => now < log[t][i].n

C3_InitialisedOnce ==
    /\ created <= 1
    /\ init_entered <= 1
    /\ \A t \in Threads : held[t] # 0 => held[t] = token_lock

\* C4: a call never makes a fourth token POST, and a call all of whose
\* token POSTs failed has made exactly 3, ends with AuthError and has
\* issued no request after the third.
C4_ThreeAttempts ==
    \A t \in Threads :
        /\ Count(log[t], "token_post") <= 3
        /\ (pc[t] = "done" /\ Len(TokenPosts(log[t])) > 0
              /\ \A i \in DOMAIN Outcomes(log[t]) : Outcomes(log[t])[i] = 0)
           => /\ Count(log[t], "token_post") = 3
              /\ result[t] = ErrorResult("AuthError")
              /\ log[t][Len(log[t])].ev = "token_post"

C4_Witness ==
    \E t \in Threads :
        /\ pc[t] = "done"
        /\ op[t] = "get_secrets"
        /\ Outcomes(log[t]) = << 0, 0, 0 >>
        /\ result[t] = ErrorResult("AuthError")

\* C5: when the token POST fails twice and succeeds the third time, the
\* refresh returns the token of the third attempt, that token is in the
\* cache, and two backoff delays were taken, each after a failed attempt
\* and before the next one.
C5_ThirdAttemptSucceeds ==
    [][\A t \in Threads :
         (ReturnsToken(t) /\ Outcomes(log[t]) = << 0, 0, 1 >>)
         => /\ result'[t] = TokenResult(Some(data[t].access_token))
            /\ access_token' = Some(data[t].access_token)
            /\ Len(log[t]) = 5
            /\ \A i \in {1, 3, 5} : log[t][i].ev = "token_post"
            /\ \A i \in {2, 4} : log[t][i].ev = "sleep" /\ log[t][i].n > 0]_vars

C5_Witness ==
    \E t \in Threads :
        /\ pc[t] = "done"
        /\ result[t].kind = "token"
        /\ Outcomes(log[t]) = << 0, 0, 1 >>
        /\ Count(log[t], "sleep") = 2

\* C6: a refresh that succeeds at time T with lifetime expires_in (3600
\* when the response has none) stores exactly T + expires_in - 30; with
\* expires_in = 3600 that is T + 3570.
C6_ExpiryMath ==
    [][\A t \in Threads :
         (ReturnsToken(t) /\ pc[t] = "rt_store_expiry")
         => LET e == IF data[t].exp = "absent" THEN 3600 ELSE data[t].val
            IN  /\ token_expiry' = Some(now + e - 30)
                /\ e = 3600 => token_expiry' = Some(now + 3570)]_vars

C6_Witness ==
    \E t \in Threads :
        /\ pc[t] = "done"
        /\ result[t].kind = "token"
        /\ log[t] = << Event("token_post", 1), Event("store_expiry", 3570) >>
        /\ token_expiry = Some(3570)

\* C7: a sign-in response without a session cookie (absent or empty) ends
\* the get_secrets call with AuthError after that one sign-in POST, and
\* neither the folder list nor the secrets are requested.
C7_NoCookie ==
    \A t \in Threads :
        sign_in_resp[t] \in {"no_cookie", "empty_cookie"}
        => /\ pc[t] = "done"
           /\ result[t] = ErrorResult("AuthError")
           /\ Count(log[t], "sign_in_post") = 1
           /\ Count(log[t], "folders_get") = 0
           /\ Count(log[t], "secrets_get") = 0

C7_Witness ==
    \E t \in Threads : sign_in_resp[t] = "empty_cookie" /\ pc[t] = "done"

\* C8: a non-2xx sign-in response reaches the caller of get_secrets as an
\* AuthError.
C8_SignInAuthError ==
    \A t \in Threads :
        (sign_in_resp[t] = "http_error" /\ pc[t] = "done")
        => result[t] = ErrorResult("AuthError")

\* No entry of the folder list has the Name name
NoFolderNamed(folders, name) ==
    \A i \in DOMAIN folders :
        ~("Name" \in DOMAIN folders[i] /\ folders[i].Name = Some(name))

\* C9: when no entry of the folder list is named folder_name, get_secrets
\* fails with ResourceNotFoundError and never requests the secrets.
C9_MissingFolder ==
    \A t \in Threads :
        (folder_resp[t] # None /\ NoFolderNamed(folder_resp[t][1], folder_name[t]))
        => /\ pc[t] = "done"
           /\ result[t] = ErrorResult("ResourceNotFoundError")
           /\ Count(log[t], "secrets_get") = 0

C9_Witness ==
    \E t \in Threads :
        /\ folder_name[t] = "Missing"
        /\ folder_resp[t] # None
        /\ Len(folder_resp[t][1]) = 2
        /\ pc[t] = "done"

\* The last item of items with Title k
LastWithTitle(items, k) ==
    CHOOSE i \in DOMAIN items :
        /\ items[i].Title = k
        /\ \A j \in DOMAIN items : items[j].Title = k => j <= i

\* The password the mapping must hold for an item: its Password, or the
\* empty string when it has none (no key, or null)
PasswordOrEmpty(item) ==
    IF "Password" \in DOMAIN item /\ item.Password # None THEN item.Password ELSE Some("")

\* C10: a successful get_secrets returns one key per distinct Title, the
\* value being the Password of the last item with that Title, and the
\* empty string, never null, when that item has no password.
C10_SecretMap ==
    \A t \in Threads :
        (pc[t] = "done" /\ result[t].kind = "secrets")
        => LET items == secrets_resp[t][1]
               m == result[t].secrets
           IN  /\ DOMAIN m = { items[i].Title : i \in DOMAIN items }
               /\ \A k \in DOMAIN m :
                    m[k] = PasswordOrEmpty(items[LastWithTitle(items, k)])

\* The last request or sleep a call has logged
LastEvent(t) == log[t][Len(log[t])]

\* C11: the error get_secrets reports follows the failing step: a failed
\* folder-list GET or secrets GET gives a plain BeyondTrustError, token
\* exhaustion and a missing session cookie give AuthError, a missing
\* folder gives ResourceNotFoundError, and a failing call returns no
\* secret mapping.
C11_ErrorKinds ==
    \A t \in Threads :
        (pc[t] = "done" /\ op[t] = "get_secrets")
        => /\ (LastEvent(t).ev = "folders_get" /\ folder_resp[t] = None)
                => result[t] = ErrorResult("BeyondTrustError")
           /\ (LastEvent(t).ev = "secrets_get" /\ secrets_resp[t] = None)
                => result[t] = ErrorResult("BeyondTrustError")
           /\ LastEvent(t).ev = "token_post"
                => result[t] = ErrorResult("AuthError")
           /\ sign_in_resp[t] \in {"no_cookie", "empty_cookie"}
                => result[t] = ErrorResult("AuthError")
           /\ (folder_resp[t] # None /\ NoFolderNamed(folder_resp[t][1], folder_name[t]))
                => result[t] = ErrorResult("ResourceNotFoundError")
           /\ result[t].kind = "error" => result[t].secrets = EmptyMap

C11_Witness ==
    \E t \in Threads :
        /\ pc[t] = "done"
        /\ op[t] = "get_secrets"
        /\ LastEvent(t).ev = "secrets_get"
        /\ folder_resp[t] # None
        /\ secrets_resp[t] = None
        /\ result[t] = ErrorResult("BeyondTrustError")

\* The statements of get_valid_token's with block, _refresh_token included
SectionPcs == {"gvt_check", "rt_post", "rt_store_token", "rt_store_expiry", "rt_sleep"}

InSection == { t \in Threads : pc[t] \in SectionPcs }

\* C12: at every moment at most one thread is inside the check-and-refresh
\* section of get_valid_token, so at most one refresh, with its retries
\* and sleeps, is in progress.
C12_OneInSection == Cardinality(InSection) <= 1

\* C13: in every reachable state of the token cache, also after refresh
\* attempts that fail while the response is parsed, a set _access_token
\* comes with a set _token_expiry (looked at whenever no thread stands
\* between the two assignments of a refresh attempt).
C13_TokenHasExpiry ==
    (\A t \in Threads : pc[t] # "rt_store_expiry")
    => (access_token # None => token_expiry # None)

\* Thread t is in a refresh attempt whose response it cannot use: the
\* body lacks access_token or has an unusable expires_in
InFailingAttempt(t) == pc[t] \in {"rt_store_token", "rt_store_expiry"} /\ ~Usable(data[t])

\* C14: the cached pair is replaced only as a whole: no step of a refresh
\* attempt that fails changes _access_token or _token_expiry (so a
\* refresh ending in AuthError, made of failing attempts only, leaves the
\* cache as it was).
C14_FailedAttemptKeepsCache ==
    [][\A t \in Threads :
         (InFailingAttempt(t) /\ pc'[t] # pc[t])
         => (access_token' = access_token /\ token_expiry' = token_expiry)]_vars

SleepEvents(l) == SelectSeq(l, LAMBDA e : e.ev = "sleep")

Delays(l) == [i \in 1..Len(SleepEvents(l)) |-> SleepEvents(l)[i].n]

\* C16 as stated: the delay is base x attempt number with base 2 and at
\* most 3 attempts, and the delays taken are 2, 4 and 6: a refresh whose
\* three attempts all fail has slept 2, 4 and 6.
C16_DelaysTwoFourSix ==
    \A t \in Threads :
        /\ \A i \in DOMAIN Delays(log[t]) : Delays(log[t])[i] = 2 * i
        /\ Count(log[t], "token_post") <= 3
        /\ (pc[t] = "done" /\ Outcomes(log[t]) = << 0, 0, 0 >>)
           => Delays(log[t]) = << 2, 4, 6 >>

\* C16 amended: the delay after the k-th failed attempt is 2 x k, there
\* are at most 3 attempts, and no delay follows the third: the delays
\* taken are 2 and 4.
C16_DelaysTwoFour ==
    \A t \in Threads :
        /\ \A i \in DOMAIN Delays(log[t]) : Delays(log[t])[i] = 2 * i
        /\ Count(log[t], "token_post") <= 3
        /\ Len(Delays(log[t])) <= 2
        /\ (pc[t] = "done" /\ Outcomes(log[t]) = << 0, 0, 0 >>)
           => Delays(log[t]) = << 2, 4 >>

C16_Witness ==
    \E t \in Threads :
        /\ pc[t] = "done"
        /\ Outcomes(log[t]) = << 0, 0, 0 >>
        /\ Delays(log[t]) = << 2, 4 >>
        /\ result[t] = ErrorResult("AuthError")

\* The cache holds a token whose stored expiry is after the current time
CacheValid == access_token # None /\ token_expiry # None /\ now < token_expiry[1]

\* C17: get_valid_token refreshes exactly when the cached token is absent
\* or the current time has reached the stored expiry; with a valid cache
\* it makes no token POST, returns the cached token and leaves
\* _access_token and _token_expiry unchanged.
C17_RefreshIffInvalid ==
    [][\A t \in Threads :
         (pc[t] = "gvt_check" /\ pc'[t] # "gvt_check")
         => IF CacheValid
              THEN /\ pc'[t] = "done"
                   /\ result'[t] = TokenResult(access_token)
                   /\ Count(log'[t], "token_post") = 0
                   /\ access_token' = access_token
                   /\ token_expiry' = token_expiry
              ELSE pc'[t] = "rt_post"]_vars

C17_Witness ==
    \E t \in Threads :
        /\ pc[t] = "done"
        /\ op[t] = "get_valid_token"
        /\ log[t] = << >>
        /\ CacheValid
        /\ result[t] = TokenResult(access_token)

\* Entry i of folders is named name
Named(folders, i, name) == "Name" \in DOMAIN folders[i] /\ folders[i].Name = Some(name)

\* The identifier an entry carries: its Id, or its ID when it has no Id
CarriedId(f) == IF "Id" \in DOMAIN f THEN f.Id ELSE IF "ID" \in DOMAIN f THEN f.ID ELSE None

\* C18: the secrets GET goes to the identifier of the first entry, in list
\* order, whose Name equals folder_name exactly, taken from Id or, when
\* the entry has no Id, from ID; the identifier 0 included.
C18_TargetsFolderId ==
    \A t \in Threads : \A i \in DOMAIN log[t] :
        log[t][i].ev = "secrets_get"
        => LET folders == folder_resp[t][1]
           IN  \E k \in DOMAIN folders :
                  /\ Named(folders, k, folder_name[t])
                  /\ \A j \in 1..(k - 1) : ~Named(folders, j, folder_name[t])
                  /\ log[t][i].id = CarriedId(folders[k])

\* Thread t has left get_valid_token with a token or with AuthError,
\* holding no lock
Finished(t) ==
    /\ pc[t] = "done"
    /\ held[t] = 0
    /\ \/ result[t].kind = "token" /\ result[t].token # None
       \/ result[t] = ErrorResult("AuthError")

\* C19: the token lock is released on every exit of get_valid_token, the
\* exit by AuthError included: with requests and sleeps that return and
\* a lock that is granted, every thread that calls get_valid_token
\* eventually returns a token or raises AuthError, whatever the refreshes
\* of the other callers did.
C19_EveryCallerReturns ==
    \A t \in Threads : (pc[t] = "gvt_lock") ~> Finished(t)

\* A caller has finished after another caller's refresh ended in AuthError
C19_Witness ==
    \E t, u \in Threads :
        /\ t # u
        /\ result[u] = ErrorResult("AuthError")
        /\ Len(log[t]) > 0
        /\ Finished(t)
        /\ \A v \in Threads : held[v] = 0

\* Thread t is in a BeyondTrustClient() evaluation of an instance whose
\* __init__ has completed: before __new__, in __new__, or at __init__'s
\* hasattr check
InLaterConstruction(t) ==
    /\ initialized
    /\ \/ pc[t] \in {"new_lock", "new_check", "init_check"}
       \/ pc[t] = "idle" /\ pc'[t] = "new_lock"

\* C20: once the singleton is initialised, every later BeyondTrustClient()
\* returns the same instance and leaves config, cached token, cached
\* expiry and token lock unchanged: __init__ is not re-run and a cached
\* token is not discarded.
C20_LaterConstructionKeepsState ==
    [][\A t \in Threads :
         (InLaterConstruction(t) /\ pc'[t] # pc[t])
         => /\ cls_instance' = cls_instance
            /\ created' = created
            /\ init_entered' = init_entered
            /\ config' = config
            /\ access_token' = access_token
            /\ token_expiry' = token_expiry
            /\ token_lock' = token_lock
            /\ pc[t] = "new_check" => client'[t] = cls_instance
            /\ pc[t] = "init_check" => (pc'[t] = "idle" /\ client'[t] = cls_instance)]_vars

\* A thread that has constructed the client before is constructing it
\* again while a token is cached
C20_Witness ==
    \E t \in Threads :
        /\ initialized
        /\ client[t] # None
        /\ pc[t] = "new_check"
        /\ access_token # None
        /\ token_expiry # None

=============================================================================
